---- MODULE Spec2Model ----
(***************************************************************************)
(* Model of the Mandelbrot renderer of src/main.rs: the pixel-to-plane     *)
(* mapping (pixel_to_point), the escape-time iteration (escape_time), the  *)
(* colour mapping (calculate_rgb), the band renderer (render) and the      *)
(* fork/join band scheduler of main.                                       *)
(*                                                                         *)
(* f64 is modelled by a binary floating-point format with Prec significant *)
(* bits, round-to-nearest-even and gradual underflow.  A float is held as  *)
(* the integer number of quanta 2^-Frac it is worth, so the real 1.0 is    *)
(* the integer One.  Overflow to infinity is not modelled: every input is  *)
(* far below the largest finite value.  Where pixel values are computed,   *)
(* image dimensions stay below 2^Prec, so that `usize as f64` is exact as  *)
(* it is for any real image; the partition specification, whose images are *)
(* larger, computes no pixel value.                                        *)
(***************************************************************************)
EXTENDS Integers, Sequences, FiniteSets, TLC

\* ------------------------------------------------------------------ bounds
Prec == 4        \* significant bits of the floating-point format
MaxW == 2        \* widths 1..MaxW in the concurrent specification
MaxH == 9        \* largest height in the concurrent specification
MaxPW == 3       \* widths 1..MaxPW in the partition specification
MaxPH == 70      \* heights 1..MaxPH in the partition specification
MaxThreads == 8  \* worker counts 1..MaxThreads in the partition specification
MaxDim == 2      \* widths and heights 1..MaxDim of a single render call
MaxK == 3        \* its window's real coordinates are k/2, k in -MaxK..MaxK
MaxMapDim == 3   \* widths and heights 1..MaxMapDim of a pixel_to_point call
MaxG == 4        \* its window's coordinates are 0 and +-2^-j, j in 0..MaxG

\* --------------------------------------------------------- floating point
Frac == 2 * Prec
One == 2 ^ Frac

Abs(x) == IF x < 0 THEN -x ELSE x
Min(a, b) == IF a < b THEN a ELSE b

RECURSIVE QuantumFrom(_, _)
\* the least power of two q >= q0 with m < 2^Prec * q
QuantumFrom(m, q0) == IF m < (2 ^ Prec) * q0 THEN q0 ELSE QuantumFrom(m, 2 * q0)

\* the spacing of the floats around a magnitude whose integer part is m
Quantum(m) == QuantumFrom(m, 1)

\* n/d (n >= 0, d > 0) rounded to the nearest multiple of q, ties to even
RoundHalfEven(n, d, q) ==
    LET dq == d * q
        k == n \div dq
        r == n % dq
    IN  IF 2 * r > dq \/ (2 * r = dq /\ k % 2 = 1) THEN (k + 1) * q ELSE k * q

\* the float nearest to the rational n/d (d > 0)
RoundQ(n, d) ==
    LET a == Abs(n)
        v == RoundHalfEven(a, d, Quantum(a \div d))
    IN  IF n < 0 THEN -v ELSE v

IsFloat(x) == RoundQ(x, 1) = x

FAdd(a, b) == RoundQ(a + b, 1)
FSub(a, b) == RoundQ(a - b, 1)
FMul(a, b) == RoundQ(a * b, One)
FDiv(a, b) == IF b < 0 THEN RoundQ(-(a * One), -b) ELSE RoundQ(a * One, b)
\* `n as f64` for an unsigned integer n
ToF64(n) == RoundQ(n * One, 1)

Complex(re, im) == [re |-> re, im |-> im]

\* num::Complex multiplication and addition, and norm_sqr
CMul(a, b) == Complex(FSub(FMul(a.re, b.re), FMul(a.im, b.im)),
                      FAdd(FMul(a.re, b.im), FMul(a.im, b.re)))
CAdd(a, b) == Complex(FAdd(a.re, b.re), FAdd(a.im, b.im))
norm_sqr(z) == FAdd(FMul(z.re, z.re), FMul(z.im, z.im))

\* ------------------------------------------------------- pure functions
None == <<>>
Some(i) == <<i>>

RECURSIVE escape_run(_, _, _, _, _)
\* at most n iterations of the loop of escape_time from iteration i on, z
\* being the value so far: the result if the loop ended, else where it is
escape_run(c, limit, i, z, n) ==
    IF i >= limit THEN [ended |-> TRUE, result |-> None, i |-> i, z |-> z]
    ELSE IF n = 0 THEN [ended |-> FALSE, result |-> None, i |-> i, z |-> z]
    ELSE LET z1 == CAdd(CMul(z, z), c)
         IN  IF norm_sqr(z1) > 4 * One
             THEN [ended |-> TRUE, result |-> Some(i), i |-> i, z |-> z1]
             ELSE escape_run(c, limit, i + 1, z1, n - 1)

RECURSIVE escape_loop(_, _, _, _)
\* the loop of escape_time from iteration i on, evaluated 16 iterations at
\* a time to bound the depth of the recursion
escape_loop(c, limit, i, z) ==
    LET r == escape_run(c, limit, i, z, 16)
    IN  IF r.ended THEN r.result ELSE escape_loop(c, limit, r.i, r.z)

escape_time(c, limit) == escape_loop(c, limit, 0, Complex(0, 0))

\* faulty variant of pixel_to_point: the imaginary part grows with the row
pixel_to_point_flipped(bounds, pixel, upper_left, lower_right) ==
    LET width == FSub(lower_right.re, upper_left.re)
        height == FSub(upper_left.im, lower_right.im)
    IN  Complex(
          FAdd(upper_left.re,
               FDiv(FMul(ToF64(pixel[1]), width), ToF64(bounds[1]))),
          FAdd(upper_left.im,
               FDiv(FMul(ToF64(pixel[2]), height), ToF64(bounds[2]))))
\* the point of the complex plane of pixel (column, row)
pixel_to_point(bounds, pixel, upper_left, lower_right) ==
    LET width == FSub(lower_right.re, upper_left.re)
        height == FSub(upper_left.im, lower_right.im)
    IN  Complex(
          FAdd(upper_left.re,
               FDiv(FMul(ToF64(pixel[1]), width), ToF64(bounds[1]))),
          FSub(upper_left.im,
               FDiv(FMul(ToF64(pixel[2]), height), ToF64(bounds[2]))))

limit == 255

\* calculate_rgb(255, count as f64) for count = 0 .. 254, in the order of
\* the counts: the three scaled Gaussian densities, truncated by `as u8`
RgbTable ==
    <<
       <<0, 15, 187>>, <<0, 16, 190>>, <<0, 17, 192>>, <<0, 18, 195>>, <<0, 18, 198>>,
       <<0, 19, 200>>, <<0, 20, 203>>, <<0, 21, 205>>, <<0, 22, 208>>, <<0, 23, 210>>,
       <<0, 24, 212>>, <<0, 25, 215>>, <<0, 26, 217>>, <<0, 27, 219>>, <<0, 28, 222>>,
       <<0, 29, 224>>, <<0, 30, 226>>, <<0, 31, 228>>, <<0, 32, 230>>, <<0, 34, 232>>,
       <<0, 35, 233>>, <<0, 36, 235>>, <<0, 38, 237>>, <<0, 39, 238>>, <<0, 41, 240>>,
       <<0, 42, 242>>, <<0, 44, 243>>, <<0, 45, 244>>, <<0, 47, 246>>, <<0, 48, 247>>,
       <<0, 50, 248>>, <<0, 52, 249>>, <<0, 53, 250>>, <<1, 55, 251>>, <<1, 57, 251>>,
       <<1, 59, 252>>, <<1, 61, 253>>, <<1, 63, 253>>, <<1, 65, 254>>, <<1, 67, 254>>,
       <<1, 69, 254>>, <<1, 71, 254>>, <<1, 73, 254>>, <<1, 75, 254>>, <<2, 77, 254>>,
       <<2, 79, 254>>, <<2, 82, 254>>, <<2, 84, 254>>, <<2, 86, 253>>, <<2, 89, 253>>,
       <<2, 91, 252>>, <<2, 93, 251>>, <<3, 96, 251>>, <<3, 98, 250>>, <<3, 101, 249>>,
       <<3, 104, 248>>, <<3, 106, 247>>, <<4, 109, 246>>, <<4, 111, 244>>, <<4, 114, 243>>,
       <<4, 117, 242>>, <<5, 119, 240>>, <<5, 122, 238>>, <<5, 125, 237>>, <<5, 128, 235>>,
       <<6, 130, 233>>, <<6, 133, 232>>, <<6, 136, 230>>, <<7, 139, 228>>, <<7, 142, 226>>,
       <<7, 145, 224>>, <<8, 147, 222>>, <<8, 150, 219>>, <<9, 153, 217>>, <<9, 156, 215>>,
       <<10, 159, 212>>, <<10, 162, 210>>, <<11, 165, 208>>, <<11, 167, 205>>, <<12, 170, 203>>,
       <<12, 173, 200>>, <<13, 176, 198>>, <<13, 179, 195>>, <<14, 181, 192>>, <<15, 184, 190>>,
       <<15, 187, 187>>, <<16, 190, 184>>, <<17, 192, 181>>, <<18, 195, 179>>, <<18, 198, 176>>,
       <<19, 200, 173>>, <<20, 203, 170>>, <<21, 205, 167>>, <<22, 208, 165>>, <<23, 210, 162>>,
       <<24, 212, 159>>, <<25, 215, 156>>, <<26, 217, 153>>, <<27, 219, 150>>, <<28, 222, 147>>,
       <<29, 224, 145>>, <<30, 226, 142>>, <<31, 228, 139>>, <<32, 230, 136>>, <<34, 232, 133>>,
       <<35, 233, 130>>, <<36, 235, 128>>, <<38, 237, 125>>, <<39, 238, 122>>, <<41, 240, 119>>,
       <<42, 242, 117>>, <<44, 243, 114>>, <<45, 244, 111>>, <<47, 246, 109>>, <<48, 247, 106>>,
       <<50, 248, 104>>, <<52, 249, 101>>, <<53, 250, 98>>, <<55, 251, 96>>, <<57, 251, 93>>,
       <<59, 252, 91>>, <<61, 253, 89>>, <<63, 253, 86>>, <<65, 254, 84>>, <<67, 254, 82>>,
       <<69, 254, 79>>, <<71, 254, 77>>, <<73, 254, 75>>, <<75, 254, 73>>, <<77, 254, 71>>,
       <<79, 254, 69>>, <<82, 254, 67>>, <<84, 254, 65>>, <<86, 253, 63>>, <<89, 253, 61>>,
       <<91, 252, 59>>, <<93, 251, 57>>, <<96, 251, 55>>, <<98, 250, 53>>, <<101, 249, 52>>,
       <<104, 248, 50>>, <<106, 247, 48>>, <<109, 246, 47>>, <<111, 244, 45>>, <<114, 243, 44>>,
       <<117, 242, 42>>, <<119, 240, 41>>, <<122, 238, 39>>, <<125, 237, 38>>, <<128, 235, 36>>,
       <<130, 233, 35>>, <<133, 232, 34>>, <<136, 230, 32>>, <<139, 228, 31>>, <<142, 226, 30>>,
       <<145, 224, 29>>, <<147, 222, 28>>, <<150, 219, 27>>, <<153, 217, 26>>, <<156, 215, 25>>,
       <<159, 212, 24>>, <<162, 210, 23>>, <<165, 208, 22>>, <<167, 205, 21>>, <<170, 203, 20>>,
       <<173, 200, 19>>, <<176, 198, 18>>, <<179, 195, 18>>, <<181, 192, 17>>, <<184, 190, 16>>,
       <<187, 187, 15>>, <<190, 184, 15>>, <<192, 181, 14>>, <<195, 179, 13>>, <<198, 176, 13>>,
       <<200, 173, 12>>, <<203, 170, 12>>, <<205, 167, 11>>, <<208, 165, 11>>, <<210, 162, 10>>,
       <<212, 159, 10>>, <<215, 156, 9>>, <<217, 153, 9>>, <<219, 150, 8>>, <<222, 147, 8>>,
       <<224, 145, 7>>, <<226, 142, 7>>, <<228, 139, 7>>, <<230, 136, 6>>, <<232, 133, 6>>,
       <<233, 130, 6>>, <<235, 128, 5>>, <<237, 125, 5>>, <<238, 122, 5>>, <<240, 119, 5>>,
       <<242, 117, 4>>, <<243, 114, 4>>, <<244, 111, 4>>, <<246, 109, 4>>, <<247, 106, 3>>,
       <<248, 104, 3>>, <<249, 101, 3>>, <<250, 98, 3>>, <<251, 96, 3>>, <<251, 93, 2>>,
       <<252, 91, 2>>, <<253, 89, 2>>, <<253, 86, 2>>, <<254, 84, 2>>, <<254, 82, 2>>,
       <<254, 79, 2>>, <<254, 77, 2>>, <<254, 75, 1>>, <<254, 73, 1>>, <<254, 71, 1>>,
       <<254, 69, 1>>, <<254, 67, 1>>, <<254, 65, 1>>, <<253, 63, 1>>, <<253, 61, 1>>,
       <<252, 59, 1>>, <<251, 57, 1>>, <<251, 55, 1>>, <<250, 53, 0>>, <<249, 52, 0>>,
       <<248, 50, 0>>, <<247, 48, 0>>, <<246, 47, 0>>, <<244, 45, 0>>, <<243, 44, 0>>,
       <<242, 42, 0>>, <<240, 41, 0>>, <<238, 39, 0>>, <<237, 38, 0>>, <<235, 36, 0>>,
       <<233, 35, 0>>, <<232, 34, 0>>, <<230, 32, 0>>, <<228, 31, 0>>, <<226, 30, 0>>,
       <<224, 29, 0>>, <<222, 28, 0>>, <<219, 27, 0>>, <<217, 26, 0>>, <<215, 25, 0>>,
       <<212, 24, 0>>, <<210, 23, 0>>, <<208, 22, 0>>, <<205, 21, 0>>, <<203, 20, 0>>,
       <<200, 19, 0>>, <<198, 18, 0>>, <<195, 18, 0>>, <<192, 17, 0>>, <<190, 16, 0>>
    >>

calculate_rgb(lim, count) == RgbTable[count + 1]

Background == <<40, 40, 40>>

\* faulty variant of PixelColor: a pixel that never escapes is coloured too
PixelColorAlwaysRgb(bounds, column, row, upper_left, lower_right) ==
    LET point == pixel_to_point(bounds, <<column, row>>, upper_left, lower_right)
        e == escape_time(point, limit)
    IN  IF e = None THEN calculate_rgb(limit, limit - 1)
        ELSE calculate_rgb(limit, e[1])
\* the value render stores for pixel (column, row)
PixelColor(bounds, column, row, upper_left, lower_right) ==
    LET point == pixel_to_point(bounds, <<column, row>>, upper_left, lower_right)
        e == escape_time(point, limit)
    IN  IF e = None THEN Background ELSE calculate_rgb(limit, e[1])

\* the index render writes for pixel (column, row)
PixelIndex(bounds, column, row) == row * bounds[1] + column

\* ------------------------------------------------------------------ state
VARIABLES
    bounds,         \* (width, height) of the image
    upper_left,     \* the window's corners on the complex plane
    lower_right,
    nthreads,       \* main's local `threads`
    pixels,         \* the pixel buffer, index -> (r, g, b)
    rows_per_band,  \* main's local, 0 before it is computed
    bands,          \* the slices chunks_mut returned, band -> [start, len]
    workers,        \* the spawned threads, band -> the state of its render call
    pc,             \* main's position
    rgb_image,      \* the bytes handed to write_image, <<>> before
    wrote,          \* history: the (worker, buffer index) pairs written so far
    point           \* the result of a pixel_to_point call, <<>> before

vars == <<bounds, upper_left, lower_right, nthreads, pixels, rows_per_band,
          bands, workers, pc, rgb_image, wrote, point>>

\* what main is given and never changes
inputs == <<bounds, upper_left, lower_right, nthreads>>

\* the value main gives `threads`
threads == 8

\* faulty variant of RowsPerBand: the exact ceiling
RowsPerBandCeil(height) == (height + nthreads - 1) \div nthreads
\* main's rows_per_band
RowsPerBand(height) == height \div nthreads + 1

\* faulty variants of chunks_mut: chunks that share an element with their
\* predecessor, a last chunk as long as the others, chunks one element longer
chunks_mut_overlap(n, size) ==
    [j \in 0 .. ((n + size - 1) \div size) - 1 |->
        [start |-> IF j = 0 THEN 0 ELSE j * size - 1,
         len |-> Min(size, n - j * size)]]
chunks_mut_full(n, size) ==
    [j \in 0 .. ((n + size - 1) \div size) - 1 |->
        [start |-> j * size, len |-> size]]
chunks_mut_ragged(n, size) ==
    [j \in 0 .. ((n + size) \div (size + 1)) - 1 |->
        [start |-> j * (size + 1), len |-> Min(size + 1, n - j * (size + 1))]]
\* slice::chunks_mut over a slice of n elements: consecutive chunks of
\* `size` elements, the last one holding what remains; no chunk is empty
chunks_mut(n, size) ==
    [j \in 0 .. ((n + size - 1) \div size) - 1 |->
        [start |-> j * size, len |-> Min(size, n - j * size)]]

Width == bounds[1]
Height == bounds[2]

NumBands == Cardinality(DOMAIN bands)
Spawned == DOMAIN workers

\* band i's first row and number of rows, as the spawn loop computes them
BandTop(i) == rows_per_band * i
BandHeight(i) == bands[i].len \div Width

Finished(k) == workers[k].state \in {"done", "panicked"}

\* faulty variant of AllJoined: the scope does not wait
NoJoin == TRUE
\* crossbeam::scope returns once every thread spawned in it has finished
AllJoined == \A k \in Spawned : Finished(k)

\* the heights of the concurrent specification: one and two bands of one
\* row, and the two largest heights, whose bands hold two rows
Heights == {1, 2, MaxH - 1, MaxH}

\* the windows of a single render call
RenderCoords == {k * (One \div 2) : k \in -MaxK .. MaxK}
RenderWindows ==
    {<<Complex(re1, im1), Complex(re2, -One)>> :
        re1 \in RenderCoords, re2 \in RenderCoords, im1 \in {One \div 2, One}}

\* the window coordinates of a pixel_to_point call
MapCoords == {0} \cup {One \div (2 ^ j) : j \in 0 .. MaxG}
                 \cup {-(One \div (2 ^ j)) : j \in 0 .. MaxG}

ZeroBuffer(n) == [idx \in 0 .. n - 1 |-> <<0, 0, 0>>]

\* ---------------------------------------------------------------- actions
\* main, lines 223-224
Setup ==
    /\ pc = "start"
    /\ rows_per_band' = RowsPerBand(Height)
    /\ pc' = "chunks"
    /\ UNCHANGED <<inputs, pixels, bands, workers, rgb_image, wrote, point>>

\* main, line 227
Chunks ==
    /\ pc = "chunks"
    /\ bands' = chunks_mut(Width * Height, rows_per_band * Width)
    /\ pc' = "spawn"
    /\ UNCHANGED <<inputs, pixels, rows_per_band, workers, rgb_image, wrote,
                   point>>

\* main, lines 230-239: one iteration of the spawn loop, or its end
Spawn ==
    /\ pc = "spawn"
    /\ LET i == Cardinality(Spawned)
       IN  IF i < NumBands
           THEN LET top == BandTop(i)
                    height == BandHeight(i)
                    w == [state |-> "spawned",
                          slice |-> bands[i],
                          bounds |-> <<Width, height>>,
                          upper_left |->
                              pixel_to_point(bounds, <<0, top>>,
                                             upper_left, lower_right),
                          lower_right |->
                              pixel_to_point(bounds, <<Width, top + height>>,
                                             upper_left, lower_right),
                          row |-> 0,
                          column |-> 0]
                IN  /\ workers' = [k \in Spawned \cup {i} |->
                                     IF k = i THEN w ELSE workers[k]]
                    /\ pc' = pc
           ELSE /\ pc' = "join"
                /\ workers' = workers
    /\ UNCHANGED <<inputs, pixels, rows_per_band, bands, rgb_image, wrote,
                   point>>

\* render, line 170 and the entry of the loops
RenderStart(k) ==
    /\ k \in Spawned
    /\ workers[k].state = "spawned"
    /\ LET me == workers[k]
           st == IF me.slice.len # me.bounds[1] * me.bounds[2] THEN "panicked"
                 ELSE IF me.bounds[1] = 0 \/ me.bounds[2] = 0 THEN "done"
                 ELSE "running"
       IN  workers' = [workers EXCEPT ![k].state = st]
    /\ UNCHANGED <<inputs, pixels, rows_per_band, bands, pc, rgb_image,
                   wrote, point>>

\* render, lines 172-180: one iteration of the inner loop
RenderStep(k) ==
    /\ k \in Spawned
    /\ workers[k].state = "running"
    /\ LET me == workers[k]
           rel == PixelIndex(me.bounds, me.column, me.row)
           idx == me.slice.start + rel
           last_col == me.column + 1 >= me.bounds[1]
           last_row == me.row + 1 >= me.bounds[2]
       IN  IF rel >= me.slice.len
           THEN \* the slice's bounds check fails
                /\ workers' = [workers EXCEPT ![k].state = "panicked"]
                /\ UNCHANGED <<pixels, wrote>>
           ELSE /\ pixels' = [pixels EXCEPT ![idx] =
                                PixelColor(me.bounds, me.column, me.row,
                                           me.upper_left, me.lower_right)]
                /\ wrote' = wrote \cup {<<k, idx>>}
                /\ workers' = [workers EXCEPT
                     ![k].column = IF last_col THEN 0 ELSE me.column + 1,
                     ![k].row = IF last_col THEN me.row + 1 ELSE me.row,
                     ![k].state = IF last_col /\ last_row THEN "done" ELSE "running"]
    /\ UNCHANGED <<inputs, rows_per_band, bands, pc, rgb_image, point>>

\* the end of crossbeam::scope, line 240; a worker's panic is fatal
Join ==
    /\ pc = "join"
    /\ AllJoined
    /\ pc' = IF \E k \in Spawned : workers[k].state = "panicked"
             THEN "panicked" ELSE "encode"
    /\ UNCHANGED <<inputs, pixels, rows_per_band, bands, workers, rgb_image,
                   wrote, point>>

\* main, lines 243-248: the buffer as bytes, handed to write_image
Encode ==
    /\ pc = "encode"
    /\ rgb_image' = [b \in 0 .. 3 * Width * Height - 1 |->
                        pixels[b \div 3][(b % 3) + 1]]
    /\ pc' = "done"
    /\ UNCHANGED <<inputs, pixels, rows_per_band, bands, workers, wrote,
                   point>>

\* a call of pixel_to_point on a corner of the image's bounds
MapPixel ==
    /\ pc = "map"
    /\ pc' = "mapped"
    /\ \E pixel \in {<<0, 0>>, <<Width, Height>>} :
         point' = [pixel |-> pixel,
                   value |-> pixel_to_point(bounds, pixel,
                                            upper_left, lower_right)]
    /\ UNCHANGED <<inputs, pixels, rows_per_band, bands, workers, rgb_image,
                   wrote>>

\* --------------------------------------------------------- specifications
NoWorkers == [k \in {} |-> 0]

InitCommon ==
    /\ pixels = ZeroBuffer(Width * Height)
    /\ rows_per_band = 0
    /\ bands = <<>>
    /\ rgb_image = <<>>
    /\ wrote = {}
    /\ point = <<>>

\* the windows of the concurrent specification: the view of the whole set,
\* whose pixels mostly run to the iteration limit, for the images of one
\* and two rows, and a view beside the set for every image
FullView == <<Complex(-2 * One, One), Complex(One, -One)>>
SideView == <<Complex(-2 * One, 2 * One), Complex(-One, One)>>

\* main after line 221, for every image size and window of the bounds
Init ==
    /\ bounds \in (1 .. MaxW) \X Heights
    /\ \E win \in {SideView} \cup (IF Height <= 2 THEN {FullView} ELSE {}) :
         upper_left = win[1] /\ lower_right = win[2]
    /\ nthreads = threads
    /\ workers = NoWorkers
    /\ pc = "start"
    /\ InitCommon

Next ==
    \/ Setup
    \/ Chunks
    \/ Spawn
    \/ \E k \in Spawned : RenderStart(k)
    \/ \E k \in Spawned : RenderStep(k)
    \/ Join
    \/ Encode

Spec == Init /\ [][Next]_vars

\* main up to the start of every worker, for larger images and for every
\* value of `threads`: the partition
InitPart ==
    /\ bounds \in (1 .. MaxPW) \X (1 .. MaxPH)
    /\ upper_left = FullView[1]
    /\ lower_right = FullView[2]
    /\ nthreads \in 1 .. MaxThreads
    /\ workers = NoWorkers
    /\ pc = "start"
    /\ InitCommon

NextPart ==
    \/ Setup
    \/ Chunks
    \/ Spawn
    \/ \E k \in Spawned : RenderStart(k)

SpecPart == InitPart /\ [][NextPart]_vars

\* one render call over a whole buffer, for every window of the bounds
InitRender ==
    /\ bounds \in (1 .. MaxDim) \X (1 .. MaxDim)
    /\ \E win \in RenderWindows : upper_left = win[1] /\ lower_right = win[2]
    /\ workers = [k \in {0} |->
                    [state |-> "spawned",
                     slice |-> [start |-> 0, len |-> Width * Height],
                     bounds |-> bounds,
                     upper_left |-> upper_left,
                     lower_right |-> lower_right,
                     row |-> 0,
                     column |-> 0]]
    /\ nthreads = threads
    /\ pc = "render"
    /\ InitCommon

NextRender ==
    \/ RenderStart(0)
    \/ RenderStep(0)

SpecRender == InitRender /\ [][NextRender]_vars

\* one pixel_to_point call, for every window of the bounds
InitMap ==
    /\ bounds \in (1 .. MaxMapDim) \X (1 .. MaxMapDim)
    /\ upper_left \in {Complex(re, im) : re \in MapCoords, im \in MapCoords}
    /\ lower_right \in {Complex(re, im) : re \in MapCoords, im \in MapCoords}
    /\ nthreads = threads
    /\ workers = NoWorkers
    /\ pc = "map"
    /\ InitCommon

SpecMap == InitMap /\ [][MapPixel]_vars
\* ------------------------------------------------------------------ claims
CeilDiv(a, b) == (a + b - 1) \div b
IsPow2(n) == n \in {2 ^ j : j \in 0 .. 10}
SliceRange(s) == s.start .. (s.start + s.len - 1)

RECURSIVE SumLen(_)
\* the number of elements of bands i, i+1, ...
SumLen(i) == IF i \in DOMAIN bands THEN bands[i].len + SumLen(i + 1) ELSE 0

\* C1: once main has partitioned the buffer, the bands' row ranges
\* [top, top + height) tile [0, Height) in order with no gap and no overlap,
\* each band's slice holds exactly its rows, and the bands' element counts
\* sum to Width * Height.
C1_BandsTileImage ==
    pc \notin {"start", "chunks"} =>
        /\ DOMAIN bands = 0 .. NumBands - 1
        /\ NumBands >= 1
        /\ BandTop(0) = 0
        /\ \A i \in DOMAIN bands :
             /\ BandHeight(i) >= 1
             /\ bands[i].start = BandTop(i) * Width
             /\ bands[i].len = BandHeight(i) * Width
             /\ BandTop(i) + BandHeight(i) =
                    IF i + 1 \in DOMAIN bands THEN BandTop(i + 1) ELSE Height
        /\ SumLen(0) = Width * Height

C1_Witness ==
    /\ pc = "spawn"
    /\ nthreads = threads
    /\ NumBands >= 3
    /\ BandHeight(0) >= 2
    /\ BandHeight(NumBands - 1) < BandHeight(0)

\* C2: no buffer index is written by two different workers, each worker
\* writes only inside the slice it was handed at its spawn, and the slices
\* of different workers are disjoint.
C2_WritesStayInOwnSlice ==
    /\ \A p \in wrote :
         /\ p[1] \in Spawned
         /\ workers[p[1]].slice = bands[p[1]]
         /\ p[2] \in SliceRange(workers[p[1]].slice)
         /\ \A q \in wrote : q[2] = p[2] => q[1] = p[1]
    /\ \A j \in Spawned, k \in Spawned :
         j # k => SliceRange(workers[j].slice) \cap SliceRange(workers[k].slice) = {}

C2_Witness ==
    \E j \in Spawned, k \in Spawned :
        /\ j # k
        /\ workers[j].state = "running" /\ workers[k].state = "running"
        /\ workers[j].row = 1 /\ workers[k].row = 1
        /\ Width >= 2
        /\ \E p \in wrote : p[1] = j
        /\ \E q \in wrote : q[1] = k

\* C3: when main converts the buffer to bytes and hands it to write_image,
\* a worker has been spawned for every band and every one of them has
\* completed.
C3_EncodeAfterJoin ==
    (pc \in {"encode", "done"} \/ DOMAIN rgb_image # {}) =>
        /\ Spawned = DOMAIN bands
        /\ \A k \in Spawned : workers[k].state = "done"

C3_Witness ==
    /\ pc = "done"
    /\ DOMAIN rgb_image = 0 .. 3 * Width * Height - 1
    /\ NumBands >= 4

\* the pixel value of one render call over the whole image
WholeImagePixel(idx) ==
    PixelColor(bounds, idx % Width, idx \div Width, upper_left, lower_right)

\* C4: the buffer main's banded path produces equals, pixel by pixel, the
\* buffer of one render call over the whole image.
C4_BandedEqualsWhole ==
    pc = "done" => \A idx \in DOMAIN pixels : pixels[idx] = WholeImagePixel(idx)

\* the value of buffer index idx as a function of main's inputs alone: the
\* pixel's band, that band's corners, and the pixel's colour in the band
FinalPixel(idx) ==
    LET rpb == Height \div nthreads + 1
        row == idx \div Width
        top == (row \div rpb) * rpb
        height == Min(rpb, Height - top)
    IN  PixelColor(<<Width, height>>, idx % Width, row - top,
                   pixel_to_point(bounds, <<0, top>>, upper_left, lower_right),
                   pixel_to_point(bounds, <<Width, top + height>>,
                                  upper_left, lower_right))

\* C5: whatever the order and interleaving of the workers, the buffer after
\* the join, and the bytes made of it, are one function of the bounds and
\* the window.
C5_FinalBufferDetermined ==
    pc = "done" =>
        /\ pixels = [idx \in 0 .. Width * Height - 1 |-> FinalPixel(idx)]
        /\ rgb_image = [b \in 0 .. 3 * Width * Height - 1 |->
                           FinalPixel(b \div 3)[(b % 3) + 1]]

C5_Witness ==
    /\ pc = "done"
    /\ NumBands >= 4
    /\ Width >= 2
    /\ \E a \in DOMAIN pixels, b \in DOMAIN pixels : pixels[a] # pixels[b]

\* C6: after a render call returns, pixel (c, r) of its buffer is (40, 40, 40)
\* when escape_time of its point is None and calculate_rgb(255, count) when
\* it is Some(count); the background is no value of calculate_rgb.
C6_RenderResult ==
    \A k \in Spawned :
        workers[k].state = "done" =>
            \A r \in 0 .. workers[k].bounds[2] - 1,
               c \in 0 .. workers[k].bounds[1] - 1 :
                LET e == escape_time(
                            pixel_to_point(workers[k].bounds, <<c, r>>,
                                           workers[k].upper_left,
                                           workers[k].lower_right), 255)
                    px == pixels[workers[k].slice.start
                                 + r * workers[k].bounds[1] + c]
                IN  /\ e = None => px = <<40, 40, 40>>
                    /\ e # None => px = calculate_rgb(255, e[1])
                    /\ e = None => \A n \in 0 .. 254 : px # calculate_rgb(255, n)

C6_Witness ==
    /\ workers[0].state = "done"
    /\ Width >= 2 /\ Height >= 2
    /\ \E a \in DOMAIN pixels : pixels[a] = <<40, 40, 40>>
    /\ \E b \in DOMAIN pixels : pixels[b] # <<40, 40, 40>>

\* C7 as stated: pixel (0, 0) maps to upper_left and pixel (width, height)
\* maps to lower_right, exactly, for every window.
C7_CornersExact ==
    pc = "mapped" =>
        /\ point.pixel = <<0, 0>> => point.value = upper_left
        /\ point.pixel = <<Width, Height>> => point.value = lower_right

\* C7 as amended: pixel (0, 0) maps to upper_left exactly; pixel
\* (width, height) maps to lower_right exactly on each axis whose span is
\* exactly representable and whose dimension is a power of two.
C7_CornersExactWhenNoRounding ==
    pc = "mapped" =>
        /\ point.pixel = <<0, 0>> => point.value = upper_left
        /\ point.pixel = <<Width, Height>> =>
             /\ (IsFloat(lower_right.re - upper_left.re) /\ IsPow2(Width))
                    => point.value.re = lower_right.re
             /\ (IsFloat(upper_left.im - lower_right.im) /\ IsPow2(Height))
                    => point.value.im = lower_right.im

C7_Witness ==
    /\ pc = "mapped"
    /\ point.pixel = <<Width, Height>>
    /\ Width = 2 /\ Height = 2
    /\ upper_left.re # lower_right.re /\ upper_left.im # lower_right.im
    /\ IsFloat(lower_right.re - upper_left.re)
    /\ IsFloat(upper_left.im - lower_right.im)
    /\ point.value = lower_right

\* C8 as stated: rows_per_band is ceil(height / threads).
C8_RowsPerBandIsCeil ==
    pc # "start" => rows_per_band = CeilDiv(Height, nthreads)

\* C8 as amended: rows_per_band is floor(height / threads) + 1, which is
\* ceil(height / threads) when threads does not divide height and one more
\* than it when threads divides height.
C8_RowsPerBandIsFloorPlusOne ==
    pc # "start" =>
        /\ rows_per_band = (Height \div nthreads) + 1
        /\ Height % nthreads # 0 => rows_per_band = CeilDiv(Height, nthreads)
        /\ Height % nthreads = 0 => rows_per_band = CeilDiv(Height, nthreads) + 1

C8_Witness ==
    /\ pc = "chunks"
    /\ nthreads = threads
    /\ Height % nthreads = 0
    /\ rows_per_band = CeilDiv(Height, nthreads) + 1

\* C9 as stated: main creates exactly `threads` bands and spawns one worker
\* for each.
C9_ExactlyThreadsBands ==
    pc = "join" => NumBands = nthreads /\ Cardinality(Spawned) = nthreads

\* C9 as amended: main creates ceil(height / rows_per_band) bands, at least
\* one and at most `threads`, and spawns one worker for each; the bands are
\* `threads` exactly when height div threads + height mod threads exceeds
\* threads - 1, which every height of threads^2 - threads + 1 or more does
\* (57 for the 8 threads of main).
C9_AtMostThreadsBands ==
    pc = "join" =>
        /\ NumBands = CeilDiv(Height, rows_per_band)
        /\ NumBands >= 1 /\ NumBands <= nthreads
        /\ Spawned = DOMAIN bands
        /\ NumBands = nthreads <=>
               (Height \div nthreads) + (Height % nthreads) > nthreads - 1
        /\ Height >= nthreads * nthreads - nthreads + 1 => NumBands = nthreads
        /\ (nthreads = threads /\ Height >= 57) => NumBands = threads

C9_Witness ==
    /\ pc = "join"
    /\ nthreads = threads
    /\ NumBands < threads
    /\ Height >= threads
    /\ Spawned = DOMAIN bands

\* C10: the assertion at the start of render holds in every worker main
\* spawns: the band's length is a multiple of the width and equals
\* band_bounds.0 * band_bounds.1, so no worker panics.
C10_RenderAssertionHolds ==
    \A k \in Spawned :
        /\ workers[k].state # "panicked"
        /\ workers[k].slice.len % Width = 0
        /\ workers[k].slice.len = workers[k].bounds[1] * workers[k].bounds[2]

C10_Witness ==
    \E j \in Spawned, k \in Spawned :
        /\ nthreads = threads
        /\ workers[j].state = "running" /\ workers[k].state = "running"
        /\ workers[j].bounds[2] >= 2
        /\ workers[k].bounds[2] < workers[j].bounds[2]
        /\ Width >= 2
====
